---- MODULE Spec2Model ----
(***************************************************************************)
(* Model of the meal-plan service: the spreadsheet parser (src/parser.js)  *)
(* and the upload handler with its week_menus table (src/server.js).       *)
(*                                                                         *)
(* A JavaScript string is a sequence of characters, each a one-character   *)
(* TLA+ string.  The Korean keywords of the parser are single atoms:       *)
(*   "josik" = 조식, "jungsik" = 중식, "seoksik" = 석식, "yasik" = 야식,   *)
(*   "saelleodeu" = 샐러드, "koneo" = 코너                                 *)
(* so `s.includes(kw)` is membership of the atom.  null (and the empty     *)
(* string, which the code treats alike through its truthiness tests) is    *)
(* the empty sequence where the code holds a string-or-null.               *)
(***************************************************************************)
EXTENDS Integers, Sequences, FiniteSets, TLC

VARIABLES
  \* one call of parseMealExcel: its arguments, its locals, its position
  pc, site, filename, rows, baseYearGuess, detected, mealCols,
  currentDate, allDates, days, i, weekStart,
  \* history: days as accumulated, before the dedupe loop rewrites it
  rawDays,
  \* the server: the week_menus table, the upload requests, the temp files,
  \* NOW(), and (history) the upserts the database has executed, in order
  week_menus, reqs, tmpFiles, clock, writes,
  \* a raw sequence and the dedupe pass applied to it once and twice
  arr, once, twice

vars == <<pc, site, filename, rows, baseYearGuess, detected, mealCols,
          currentDate, allDates, days, i, weekStart, rawDays,
          week_menus, reqs, tmpFiles, clock, writes, arr, once, twice>>

parserVars == <<site, filename, rows, baseYearGuess, detected, mealCols,
                currentDate, allDates, days, i, weekStart, rawDays>>

serverVars == <<week_menus, reqs, tmpFiles, clock, writes>>

dedupeVars == <<arr, once, twice>>

\* ------------------------------------------------------------- bounds
\* Rows of a grid, items of a raw sequence handed to dedupe, upload requests.
MaxRows == 3

MaxLen == 3

MaxReqs == 3

\* ------------------------------------------------------------ strings
Null == <<>>

Digits == <<"0", "1", "2", "3", "4", "5", "6", "7", "8", "9">>

IsDigit(c) == \E k \in 1..10 : Digits[k] = c

DigitVal(c) == (CHOOSE k \in 1..10 : Digits[k] = c) - 1

\* What /\s/ and String.prototype.trim take for white space.
IsSpace(c) == c \in {" ", "\n", "\r", "\t", "nbsp"}

RECURSIVE TrimStart(_)
TrimStart(s) ==
  IF s # <<>> /\ IsSpace(Head(s)) THEN TrimStart(Tail(s)) ELSE s

RECURSIVE TrimEnd(_)
TrimEnd(s) ==
  IF s # <<>> /\ IsSpace(s[Len(s)]) THEN TrimEnd(SubSeq(s, 1, Len(s) - 1)) ELSE s

\* String.prototype.trim
Trim(s) == TrimEnd(TrimStart(s))

\* Number("0112") of a run of digits.
RECURSIVE NumberOf(_)
NumberOf(s) ==
  IF s = <<>> THEN 0 ELSE 10 * NumberOf(SubSeq(s, 1, Len(s) - 1)) + DigitVal(s[Len(s)])

\* String(n) of a non-negative integer.
RECURSIVE StringOf(_)
StringOf(n) ==
  IF n < 10 THEN <<Digits[n + 1]>> ELSE StringOf(n \div 10) \o <<Digits[(n % 10) + 1]>>

\* String(n).padStart(2, '0')
PadStart2(n) == IF n < 10 THEN <<"0">> \o StringOf(n) ELSE StringOf(n)

\* The text of NaN, which toISODate formats like any number.
NaNText == <<"N", "a", "N">>

toISODate(y, m, d) == StringOf(y) \o <<"-">> \o PadStart2(m) \o <<"-">> \o PadStart2(d)

NaNDate == NaNText \o <<"-">> \o NaNText \o <<"-">> \o NaNText

\* a < b for strings of the model (Array.prototype.sort's default order).
RECURSIVE StrLess(_, _)
StrLess(a, b) ==
  IF b = <<>> THEN FALSE
  ELSE IF a = <<>> THEN TRUE
  ELSE IF Head(a) = Head(b) THEN StrLess(Tail(a), Tail(b))
  ELSE LET Rank(c) == IF c = "-" THEN 0
                      ELSE IF IsDigit(c) THEN 1 + DigitVal(c)
                      ELSE 20
       IN Rank(Head(a)) < Rank(Head(b))

\* ----------------------------------------------------------- calendar
\* Days since 1970-01-01 of a (proleptic Gregorian) civil date.
DaysFromCivil(y, m, d) ==
  LET yy  == IF m <= 2 THEN y - 1 ELSE y
      era == yy \div 400
      yoe == yy - era * 400
      mp  == IF m > 2 THEN m - 3 ELSE m + 9
      doy == (153 * mp + 2) \div 5 + d - 1
      doe == yoe * 365 + yoe \div 4 - yoe \div 100 + doy
  IN era * 146097 + doe - 719468

\* The civil date <<y, m, d>> of a day number.
CivilFromDays(z0) ==
  LET z   == z0 + 719468
      era == z \div 146097
      doe == z - era * 146097
      yoe == (doe - doe \div 1460 + doe \div 36524 - doe \div 146096) \div 365
      doy == doe - (365 * yoe + yoe \div 4 - yoe \div 100)
      mp  == (5 * doy + 2) \div 153
      d   == doy - (153 * mp + 2) \div 5 + 1
      m   == IF mp < 10 THEN mp + 3 ELSE mp - 9
      y   == yoe + era * 400 + (IF m <= 2 THEN 1 ELSE 0)
  IN <<y, m, d>>

\* Date.prototype.getDay: 0 = Sunday.
DayOfWeek(dayNum) == (dayNum + 4) % 7

IsLeap(y) == (y % 4 = 0 /\ y % 100 # 0) \/ y % 400 = 0

DaysInMonth(y, m) ==
  IF m = 2 THEN (IF IsLeap(y) THEN 29 ELSE 28)
  ELSE IF m \in {4, 6, 9, 11} THEN 30 ELSE 31

\* -------------------------------------------------------------- cells
\* A raw cell of the grid: null, a string, a finite number or a valid Date.
NullCell == [t |-> "null", s |-> <<>>, n |-> 0, ymd |-> <<0, 0, 0>>]

StrCell(text) == [t |-> "string", s |-> text, n |-> 0, ymd |-> <<0, 0, 0>>]

NumCell(v) == [t |-> "number", s |-> <<>>, n |-> v, ymd |-> <<0, 0, 0>>]

DateCell(y, m, d) == [t |-> "date", s |-> <<>>, n |-> 0, ymd |-> <<y, m, d>>]

\* row[c]: null where the row has no cell.
CellAt(row, c) == IF c \in DOMAIN row THEN row[c] ELSE NullCell

\* The time and zone part of Date.prototype.toISOString, one atom: no test of
\* the parser looks inside it.
IsoTimeSuffix == <<"T00:00:00.000Z">>

safeText(v) ==
  IF v.t = "null" THEN <<>>
  ELSE IF v.t = "string" THEN v.s
  ELSE IF v.t = "date" THEN toISODate(v.ymd[1], v.ymd[2], v.ymd[3]) \o IsoTimeSuffix
  ELSE IF v.n < 0 THEN <<"-">> \o StringOf(0 - v.n)
  ELSE StringOf(v.n)

\* ---------------------------------------------------- filename hint
\* path.basename: what follows the last "/".
RECURSIVE basename(_)
basename(f) ==
  IF \E k \in 1..Len(f) : f[k] = "/"
  THEN basename(SubSeq(f, (CHOOSE k \in 1..Len(f) : f[k] = "/") + 1, Len(f)))
  ELSE f

\* The place of the leftmost match of /(^|\D)(\d{6})(\D|$)/: the index of the
\* first of six digits flanked by no digit, or 0.
SixDigitRunAt(b) ==
  LET ok(p) == /\ p + 5 <= Len(b)
               /\ \A k \in p..(p + 5) : IsDigit(b[k])
               /\ (p = 1 \/ ~IsDigit(b[p - 1]))
               /\ (p + 6 > Len(b) \/ ~IsDigit(b[p + 6]))
      hits == {p \in 1..Len(b) : ok(p)}
  IN IF hits = {} THEN 0 ELSE CHOOSE p \in hits : \A q \in hits : p <= q

NoHint == [y |-> 0, mo |-> 0, d |-> 0]

parseBaseDateFromFilename(f) ==
  LET base == basename(f)
      p    == SixDigitRunAt(base)
      y    == 2000 + NumberOf(SubSeq(base, p, p + 1))
      mo   == NumberOf(SubSeq(base, p + 2, p + 3))
      d    == NumberOf(SubSeq(base, p + 4, p + 5))
  IN IF p = 0 THEN NoHint
     ELSE IF y = 0 \/ mo = 0 \/ d = 0 THEN NoHint
     ELSE [y |-> y, mo |-> mo, d |-> d]

\* new Date().getFullYear(), read when a "M/D" cell has no year hint.
CurrentYear == 2027

\* ------------------------------------------------- cell date normalizer
\* The index of the first character at or after p that is no white space.
RECURSIVE SkipSpace(_, _)
SkipSpace(s, p) ==
  IF p <= Len(s) /\ IsSpace(s[p]) THEN SkipSpace(s, p + 1) ELSE p

\* The number of digits \d{1,2} takes at p (greedy): 0, 1 or 2.
Digits12(s, p) ==
  IF p > Len(s) \/ ~IsDigit(s[p]) THEN 0
  ELSE IF p + 1 <= Len(s) /\ IsDigit(s[p + 1]) THEN 2 ELSE 1

NoMatch == <<>>

\* /(\d{1,2})\s*\/\s*(\d{1,2})/ anchored at p: <<m, d>> or NoMatch.  The
\* greedy choice is the only one that can succeed: after one digit of two
\* the next character is a digit, not "/".
MDAt(s, p) ==
  LET n1 == Digits12(s, p)
      q  == SkipSpace(s, p + n1)
      r  == SkipSpace(s, q + 1)
      n2 == Digits12(s, r)
  IN IF n1 = 0 \/ q > Len(s) \/ s[q] # "/" \/ n2 = 0 THEN NoMatch
     ELSE <<NumberOf(SubSeq(s, p, p + n1 - 1)), NumberOf(SubSeq(s, r, r + n2 - 1))>>

\* The leftmost match of the M/D pattern in s.
MatchMD(s) ==
  LET hits == {p \in 1..Len(s) : MDAt(s, p) # NoMatch}
  IN IF hits = {} THEN NoMatch
     ELSE MDAt(s, CHOOSE p \in hits : \A q \in hits : p <= q)

\* /(\d{4})-(\d{1,2})-(\d{1,2})/ anchored at p: <<y, m, d>> or NoMatch.
ISOAt(s, p) ==
  LET n2 == Digits12(s, p + 5)
      q  == p + 5 + n2
      n3 == Digits12(s, q + 1)
  IN IF \/ p + 4 > Len(s)
        \/ \E k \in p..(p + 3) : ~IsDigit(s[k])
        \/ s[p + 4] # "-"
        \/ n2 = 0 \/ q > Len(s) \/ s[q] # "-" \/ n3 = 0
     THEN NoMatch
     ELSE <<NumberOf(SubSeq(s, p, p + 3)),
            NumberOf(SubSeq(s, p + 5, q - 1)),
            NumberOf(SubSeq(s, q + 1, q + n3))>>

MatchISO(s) ==
  LET hits == {p \in 1..Len(s) : ISOAt(s, p) # NoMatch}
  IN IF hits = {} THEN NoMatch
     ELSE ISOAt(s, CHOOSE p \in hits : \A q \in hits : p <= q)

\* xlsx.SSF.parse_date_code of an integer serial, 1900 date system:
\* <<y, m, d>>, or <<0, 0, 0>> for the null it returns out of range.
parse_date_code(v) ==
  IF v < 0 \/ v > 2958465 THEN <<0, 0, 0>>
  ELSE IF v = 0 THEN <<1900, 1, 0>>
  ELSE IF v = 60 THEN <<1900, 2, 29>>
  ELSE IF v < 60 THEN CivilFromDays(DaysFromCivil(1899, 12, 31) + v)
  ELSE CivilFromDays(DaysFromCivil(1899, 12, 30) + v)

\* baseYearGuess is 0 when the filename gave no hint (base?.y undefined).
normalizeDateCell(cell, yearGuess) ==
  LET dc == parse_date_code(cell.n)
      s  == Trim(safeText(cell))
      md == MatchMD(s)
      iso == MatchISO(s)
  IN IF cell.t = "date" THEN toISODate(cell.ymd[1], cell.ymd[2], cell.ymd[3])
     ELSE IF cell.t = "number" /\ dc[1] # 0 /\ dc[2] # 0 /\ dc[3] # 0
       THEN toISODate(dc[1], dc[2], dc[3])
     ELSE IF s = <<>> THEN Null
     ELSE IF md # NoMatch
       THEN toISODate(IF yearGuess # 0 THEN yearGuess ELSE CurrentYear, md[1], md[2])
     ELSE IF iso # NoMatch THEN toISODate(iso[1], iso[2], iso[3])
     ELSE Null

\* ------------------------------------------------- menu-text splitter
RECURSIVE ReplaceAll(_, _, _)
\* s.replace(/c/g, by), by a sequence of characters.
ReplaceAll(s, c, by) ==
  IF s = <<>> THEN <<>>
  ELSE (IF Head(s) = c THEN by ELSE <<Head(s)>>) \o ReplaceAll(Tail(s), c, by)

\* t.split(/\n+/) of a trimmed, non-empty t: its maximal runs of characters
\* other than the newline.
RECURSIVE SplitNewlines(_)
SplitNewlines(t) ==
  IF t = <<>> THEN <<>>
  ELSE IF Head(t) = "\n" THEN SplitNewlines(Tail(t))
  ELSE LET stops == {k \in 1..Len(t) : t[k] = "\n"}
           stop  == IF stops = {} THEN Len(t) + 1
                    ELSE CHOOSE k \in stops : \A j \in stops : k <= j
       IN <<SubSeq(t, 1, stop - 1)>> \o SplitNewlines(SubSeq(t, stop, Len(t)))

MealLabels == {"josik", "jungsik", "seoksik", "yasik", "saelleodeu"}

\* /^\s*(조식|중식|석식|야식|샐러드|A\s*코너|B\s*코너)\s*$/i
IsHeaderLabel(p0) ==
  LET p == Trim(p0)
  IN \/ Len(p) = 1 /\ p[1] \in MealLabels
     \/ /\ Len(p) >= 2
        /\ p[1] \in {"A", "a", "B", "b"}
        /\ p[Len(p)] = "koneo"
        /\ \A k \in 2..(Len(p) - 1) : IsSpace(p[k])

RECURSIVE MapTrim(_)
MapTrim(ps) == IF ps = <<>> THEN <<>> ELSE <<Trim(Head(ps))>> \o MapTrim(Tail(ps))

splitMenuItems(text) ==
  LET t     == Trim(ReplaceAll(ReplaceAll(safeText(text), "\r", <<>>), "nbsp", <<" ">>))
      parts == SelectSeq(MapTrim(SplitNewlines(t)), LAMBDA p : p # <<>>)
  IN IF t = <<>> THEN <<>>
     ELSE SelectSeq(parts, LAMBDA p : ~IsHeaderLabel(p))

\* --------------------------------------------- header/column detector
ScanLimit == 35

Keywords ==
  [breakfast |-> {"josik"}, lunch |-> {"jungsik"}, dinner |-> {"seoksik"},
   night |-> {"yasik"}, salad |-> {"saelleodeu"}, corner |-> {"koneo"}]

\* s.replace(/\s+/g, ' ')
RECURSIVE CollapseSpace(_)
CollapseSpace(s) ==
  IF s = <<>> THEN <<>>
  ELSE IF IsSpace(Head(s))
    THEN <<" ">> \o CollapseSpace(TrimStart(s))
    ELSE <<Head(s)>> \o CollapseSpace(Tail(s))

\* s.includes(kw) for a keyword atom.
Includes(s, kw) == \E k \in 1..Len(s) : s[k] = kw

\* Array.from(set).sort((a, b) => a - b)
RECURSIVE pick(_)
pick(set) ==
  IF set = {} THEN <<>>
  ELSE LET lo == CHOOSE a \in set : \A b \in set : a <= b
       IN <<lo>> \o pick(set \ {lo})

\* found[k] after the scan: the columns where a cell of the first ScanLimit
\* rows includes a keyword of k.  rows[r + 1] is the code's rows[r].
found(grid, k) ==
  LET scanLimit == IF Len(grid) < ScanLimit THEN Len(grid) ELSE ScanLimit
  IN {c \in UNION {DOMAIN grid[r] : r \in 1..scanLimit} :
        \E r \in 1..scanLimit :
          /\ c \in DOMAIN grid[r]
          /\ LET s == Trim(CollapseSpace(safeText(grid[r][c])))
             IN s # <<>> /\ \E kw \in Keywords[k] : Includes(s, kw)}

detectHeaderColumns(grid) ==
  [breakfast |-> pick(found(grid, "breakfast")),
   lunch     |-> pick(found(grid, "lunch")),
   dinner    |-> pick(found(grid, "dinner")),
   night     |-> pick(found(grid, "night")),
   salad     |-> pick(found(grid, "salad"))]

defaultColumnsForSite(st) ==
  IF st = "main"
  THEN [breakfast |-> <<1>>, lunch |-> <<3, 4>>, dinner |-> <<5, 6>>,
        extras |-> [night |-> <<7, 8>>]]
  ELSE [breakfast |-> <<1, 2>>, lunch |-> <<3, 4>>, dinner |-> <<5, 6>>,
        extras |-> [salad |-> <<7>>, night |-> <<8>>]]

\* buildMealCols that takes the extras from the detector too when it found
\* night or salad columns.
buildMealColsDetectedExtras(det, fallback) ==
  [breakfast |-> IF Len(det.breakfast) # 0 THEN det.breakfast ELSE fallback.breakfast,
   lunch     |-> IF Len(det.lunch) # 0 THEN det.lunch ELSE fallback.lunch,
   dinner    |-> IF Len(det.dinner) # 0 THEN det.dinner ELSE fallback.dinner,
   extras    |-> IF Len(det.night) # 0 \/ Len(det.salad) # 0
                 THEN [night |-> det.night, salad |-> det.salad]
                 ELSE fallback.extras]

\* mealCols of parseMealExcel: the detector's columns where it found any,
\* the fallback's otherwise; the extras always the fallback's.
buildMealCols(det, fallback) ==
  [breakfast |-> IF Len(det.breakfast) # 0 THEN det.breakfast ELSE fallback.breakfast,
   lunch     |-> IF Len(det.lunch) # 0 THEN det.lunch ELSE fallback.lunch,
   dinner    |-> IF Len(det.dinner) # 0 THEN det.dinner ELSE fallback.dinner,
   extras    |-> fallback.extras]

\* ------------------------------------------------------ week-key deriver
\* new Date(dateISO + 'T00:00:00'): <<"ok", dayNumber>> or <<"invalid", 0>>.
\* A month outside 1..12 or a day outside 1..31 is no date in any engine.  A
\* day of 29..31 past the end of its month is engine-dependent: `lenient`
\* (V8) rolls it over into the next month, a strict engine answers Invalid
\* Date.
parseLocalDate(dateISO, lenient) ==
  LET wellFormed == /\ Len(dateISO) = 10
                    /\ dateISO[5] = "-" /\ dateISO[8] = "-"
                    /\ \A k \in {1, 2, 3, 4, 6, 7, 9, 10} : IsDigit(dateISO[k])
      y == NumberOf(SubSeq(dateISO, 1, 4))
      m == NumberOf(SubSeq(dateISO, 6, 7))
      d == NumberOf(SubSeq(dateISO, 9, 10))
  IN IF ~wellFormed \/ m < 1 \/ m > 12 \/ d < 1 \/ d > 31 THEN <<"invalid", 0>>
     ELSE IF d <= DaysInMonth(y, m) THEN <<"ok", DaysFromCivil(y, m, d)>>
     ELSE IF lenient THEN <<"ok", DaysFromCivil(y, m, 1) + d - 1>>
     ELSE <<"invalid", 0>>

mondayOf(dateISO, lenient) ==
  LET dt   == parseLocalDate(dateISO, lenient)
      day  == DayOfWeek(dt[2])
      diff == IF day = 0 THEN 0 - 6 ELSE 1 - day
      mon  == CivilFromDays(dt[2] + diff)
  IN IF dt[1] = "invalid" THEN NaNDate
     ELSE toISODate(mon[1], mon[2], mon[3])

\* ---------------------------------------------------- deduplication
RECURSIVE dedupeFrom(_, _, _)
dedupeFrom(xs, seen, out) ==
  IF xs = <<>> THEN out
  ELSE LET k == Trim(Head(xs))
       IN IF k = <<>> THEN dedupeFrom(Tail(xs), seen, out)
          ELSE IF k \in seen THEN dedupeFrom(Tail(xs), seen, out)
          ELSE dedupeFrom(Tail(xs), seen \cup {k}, Append(out, k))

\* dedupe that keeps the last occurrence of an item, not the first.
RECURSIVE dedupeKeepLastFrom(_, _)
dedupeKeepLastFrom(xs, out) ==
  IF xs = <<>> THEN out
  ELSE LET k == Trim(Head(xs))
       IN IF k = <<>> THEN dedupeKeepLastFrom(Tail(xs), out)
          ELSE dedupeKeepLastFrom(Tail(xs), Append(SelectSeq(out, LAMBDA o : o # k), k))

dedupeKeepLast(xs) == dedupeKeepLastFrom(xs, <<>>)

\* dedupe that tests `seen` with the untrimmed item.
RECURSIVE dedupeSeenRawFrom(_, _, _)
dedupeSeenRawFrom(xs, seen, out) ==
  IF xs = <<>> THEN out
  ELSE LET k == Trim(Head(xs))
       IN IF k = <<>> THEN dedupeSeenRawFrom(Tail(xs), seen, out)
          ELSE IF Head(xs) \in seen THEN dedupeSeenRawFrom(Tail(xs), seen, out)
          ELSE dedupeSeenRawFrom(Tail(xs), seen \cup {Head(xs)}, Append(out, k))

dedupeSeenRaw(xs) == dedupeSeenRawFrom(xs, {}, <<>>)

dedupe(xs) == dedupeFrom(xs, {}, <<>>)

\* ------------------------------------------- row classifier & accumulator
EmptyDay == [breakfast |-> <<>>, lunch |-> <<>>, dinner |-> <<>>, extras |-> <<>>]

\* The items of the cells of `row` at the columns `cols`, in the order of cols.
RECURSIVE ItemsOfCols(_, _)
ItemsOfCols(row, cols) ==
  IF cols = <<>> THEN <<>>
  ELSE splitMenuItems(CellAt(row, Head(cols))) \o ItemsOfCols(row, Tail(cols))

\* The extras loop of a continuation row: a label gets a sequence once a
\* cell of its columns has items.
addExtras(ex, row, extraCols) ==
  LET touched == {ek \in DOMAIN extraCols : ItemsOfCols(row, extraCols[ek]) # <<>>}
  IN [ek \in (DOMAIN ex) \cup touched |->
        (IF ek \in DOMAIN ex THEN ex[ek] ELSE <<>>)
          \o (IF ek \in touched THEN ItemsOfCols(row, extraCols[ek]) ELSE <<>>)]

\* What a continuation row appends to the day of currentDate.
addRow(day, row, cols) ==
  [breakfast |-> day.breakfast \o ItemsOfCols(row, cols.breakfast),
   lunch     |-> day.lunch \o ItemsOfCols(row, cols.lunch),
   dinner    |-> day.dinner \o ItemsOfCols(row, cols.dinner),
   extras    |-> addExtras(day.extras, row, cols.extras)]

\* rowStep without the `continue` of a date row: the date row's own cells
\* are accumulated into its day.
rowStepNoContinue(st, row, cols, yearGuess) ==
  LET dateISO == normalizeDateCell(CellAt(row, 0), yearGuess)
      ds      == IF dateISO \in DOMAIN st.days THEN st.days
                 ELSE st.days @@ (dateISO :> EmptyDay)
  IN IF dateISO # Null
     THEN [currentDate |-> dateISO,
           allDates    |-> Append(st.allDates, dateISO),
           days        |-> [ds EXCEPT ![dateISO] = addRow(@, row, cols)]]
     ELSE IF st.currentDate = Null THEN st
     ELSE [st EXCEPT !.days[st.currentDate] = addRow(@, row, cols)]

\* rowStep that sets currentDate only for a date it has not seen.
rowStepStaleDate(st, row, cols, yearGuess) ==
  LET dateISO == normalizeDateCell(CellAt(row, 0), yearGuess)
  IN IF dateISO # Null
     THEN [currentDate |-> IF st.currentDate = Null THEN dateISO ELSE st.currentDate,
           allDates    |-> Append(st.allDates, dateISO),
           days        |-> IF dateISO \in DOMAIN st.days THEN st.days
                           ELSE st.days @@ (dateISO :> EmptyDay)]
     ELSE IF st.currentDate = Null THEN st
     ELSE [st EXCEPT !.days[st.currentDate] = addRow(@, row, cols)]

\* One iteration of the row loop on the loop state st.
rowStep(st, row, cols, yearGuess) ==
  LET dateISO == normalizeDateCell(CellAt(row, 0), yearGuess)
  IN IF dateISO # Null
     THEN [currentDate |-> dateISO,
           allDates    |-> Append(st.allDates, dateISO),
           days        |-> IF dateISO \in DOMAIN st.days THEN st.days
                           ELSE st.days @@ (dateISO :> EmptyDay)]
     ELSE IF st.currentDate = Null THEN st
     ELSE [st EXCEPT !.days[st.currentDate] = addRow(@, row, cols)]

\* finishDay that never deletes the extras key.
finishDayKeepExtras(day) ==
  [breakfast |-> dedupe(day.breakfast),
   lunch     |-> dedupe(day.lunch),
   dinner    |-> dedupe(day.dinner),
   extras    |-> [k \in DOMAIN day.extras |-> dedupe(day.extras[k])]]

\* The dedupe loop on one day, with the removal of empty extras.
finishDay(day) ==
  LET ex   == [k \in DOMAIN day.extras |-> dedupe(day.extras[k])]
      keep == {k \in DOMAIN ex : Len(ex[k]) # 0}
      core == [breakfast |-> dedupe(day.breakfast),
               lunch     |-> dedupe(day.lunch),
               dinner    |-> dedupe(day.dinner)]
  IN IF keep = {} THEN core
     ELSE core @@ ("extras" :> [k \in keep |-> ex[k]])

\* Array.from(new Set(allDates)).sort()[0]
earliestDate(dates) ==
  LET set == {dates[k] : k \in 1..Len(dates)}
  IN CHOOSE a \in set : \A b \in set \ {a} : StrLess(a, b)

deriveWeekStart(dates, lenient) ==
  IF Len(dates) # 0 THEN mondayOf(earliestDate(dates), lenient) ELSE Null

\* ------------------------------------------------------------ inputs
Text1_12 == <<"1", "/", "1", "2", "(", "W", ")">>

Text1_13 == <<"1", "/", "1", "3", "\n", "(", "W", ")">>

TextSlashYMD == <<"2", "0", "2", "6", "/", "0", "1", "/", "1", "2">>

Text2_30 == <<"2", "/", "3", "0">>

TextKB == <<"k", "\n", "b">>

\* A row: `c0` in column 0, the texts `cells` (column -> text) elsewhere.  A
\* row is a function from its columns to its cells that leaves out the null
\* cells: the code reads a null and a missing cell alike (safeText).
Row(c0, cells) ==
  (IF c0 = NullCell THEN <<>> ELSE (0 :> c0)) @@ [c \in DOMAIN cells |-> StrCell(cells[c])]

RowPool ==
  << \* header labels; the lunch label shares its cell with a corner label
     Row(NullCell, (1 :> <<"josik">>) @@ (3 :> <<"jungsik", "\n", "A", "koneo">>)
                   @@ (6 :> <<"B", " ", "koneo">>)),
     \* date anchors that also carry lunch text
     Row(StrCell(Text1_12), (3 :> TextKB)),
     Row(StrCell(Text1_13), (3 :> TextKB)),
     \* continuation rows
     Row(NullCell, (1 :> <<" ", "k">>) @@ (3 :> TextKB) @@ (4 :> <<"b", " ", "\n", "\n", "r">>)
                   @@ (5 :> <<"saelleodeu">>) @@ (7 :> <<"yasik", "\n", "A", " ", "koneo">>)),
     Row(NullCell, (2 :> <<"r">>) @@ (3 :> <<"b", "\r", "\n", "k", "nbsp">>)
                   @@ (6 :> <<"r", " ", "k">>)
                   @@ (7 :> <<"s">>) @@ (8 :> <<"r", "\n", "r", "\n", "yasik">>)),
     \* a date written year/month/day, an impossible day, a Date, a serial
     Row(StrCell(TextSlashYMD), <<>>),
     Row(StrCell(Text2_30), <<>>),
     Row(DateCell(2026, 1, 18), <<>>),
     Row(NumCell(46037), <<>>) >>

NameWithHint == <<"u", "/", "2", "6", "0", "1", "1", "2", "_", "m">>

NameNoHint == <<"m", "2", "6", "0", "1">>

Grids == UNION {[1..n -> 1..Len(RowPool)] : n \in 0..MaxRows}

\* -------------------------------------------------- parseMealExcel, walked
NoColumns == [breakfast |-> <<>>, lunch |-> <<>>, dinner |-> <<>>, extras |-> <<>>]

NoDetection == [breakfast |-> <<>>, lunch |-> <<>>, dinner |-> <<>>,
                night |-> <<>>, salad |-> <<>>]

ServerIdle ==
  /\ week_menus = {}
  /\ reqs = <<>>
  /\ tmpFiles = {}
  /\ clock = 0
  /\ writes = <<>>

DedupeIdle ==
  /\ arr = <<>>
  /\ once = <<>>
  /\ twice = <<>>

\* The (site, filename) pairs a parse is started with.
Callers ==
  {<<"main", NameWithHint>>, <<"main", NameNoHint>>,
   <<"cancer", NameWithHint>>, <<"annex", NameNoHint>>}

Init ==
  /\ pc = "start"
  /\ \E c \in Callers : site = c[1] /\ filename = c[2]
  /\ \E g \in Grids : rows = [k \in DOMAIN g |-> RowPool[g[k]]]
  /\ baseYearGuess = 0
  /\ detected = NoDetection
  /\ mealCols = NoColumns
  /\ currentDate = Null
  /\ allDates = <<>>
  /\ days = <<>>
  /\ i = 0
  /\ weekStart = Null
  /\ rawDays = <<>>
  /\ ServerIdle
  /\ DedupeIdle

\* Lines 141-161: the year hint and the column map.
BuildColumns ==
  /\ pc = "start"
  /\ baseYearGuess' = parseBaseDateFromFilename(filename).y
  /\ detected' = detectHeaderColumns(rows)
  /\ mealCols' = buildMealCols(detectHeaderColumns(rows), defaultColumnsForSite(site))
  /\ pc' = "rows"
  /\ UNCHANGED <<site, filename, rows, currentDate, allDates, days, i, weekStart, rawDays>>
  /\ UNCHANGED <<serverVars, dedupeVars>>

\* Lines 163-202: the iteration of the row loop on rows[i].
ParseRow ==
  /\ pc = "rows"
  /\ i < Len(rows)
  /\ LET st == rowStep([currentDate |-> currentDate, allDates |-> allDates, days |-> days],
                       rows[i + 1], mealCols, baseYearGuess)
     IN /\ currentDate' = st.currentDate
        /\ allDates' = st.allDates
        /\ days' = st.days
  /\ i' = i + 1
  /\ UNCHANGED <<pc, site, filename, rows, baseYearGuess, detected, mealCols, weekStart,
                 rawDays>>
  /\ UNCHANGED <<serverVars, dedupeVars>>

\* Lines 204-241: dedupe, empty extras removed, weekStart.
Finish ==
  /\ pc = "rows"
  /\ i = Len(rows)
  /\ days' = [d \in DOMAIN days |-> finishDay(days[d])]
  /\ rawDays' = days
  /\ \E lenient \in BOOLEAN : weekStart' = deriveWeekStart(allDates, lenient)
  /\ pc' = "done"
  /\ UNCHANGED <<site, filename, rows, baseYearGuess, detected, mealCols,
                 currentDate, allDates, i>>
  /\ UNCHANGED <<serverVars, dedupeVars>>

Next == BuildColumns \/ ParseRow \/ Finish

Spec == Init /\ [][Next]_vars

\* ------------------------------------------------ the dedupe pass alone
DedupeItems == {<<"k">>, <<" ", "k">>, <<"k", "\n">>, <<"b">>, <<" ">>}

ParserIdle ==
  /\ site = "main"
  /\ filename = <<>>
  /\ rows = <<>>
  /\ baseYearGuess = 0
  /\ detected = NoDetection
  /\ mealCols = NoColumns
  /\ currentDate = Null
  /\ allDates = <<>>
  /\ days = <<>>
  /\ i = 0
  /\ weekStart = Null
  /\ rawDays = <<>>

InitDedupe ==
  /\ pc = "dedupe0"
  /\ arr \in UNION {[1..n -> DedupeItems] : n \in 0..MaxLen}
  /\ once = <<>>
  /\ twice = <<>>
  /\ ParserIdle
  /\ ServerIdle

DedupeOnce ==
  /\ pc = "dedupe0"
  /\ once' = dedupe(arr)
  /\ pc' = "dedupe1"
  /\ UNCHANGED <<arr, twice, parserVars, serverVars>>

DedupeTwice ==
  /\ pc = "dedupe1"
  /\ twice' = dedupe(once)
  /\ pc' = "dedupe2"
  /\ UNCHANGED <<arr, once, parserVars, serverVars>>

NextDedupe == DedupeOnce \/ DedupeTwice

SpecDedupe == InitDedupe /\ [][NextDedupe]_vars

\* ------------------------------------------------------ upload service
ADMIN_TOKEN == "secret"

NoFile == [originalname |-> <<>>, grid |-> <<>>, present |-> FALSE]

File(name, ids) ==
  [originalname |-> name, grid |-> [k \in DOMAIN ids |-> RowPool[ids[k]]], present |-> TRUE]

\* The upload requests: the token sent, the site field ("": none), the file.
Uploads ==
  {[token |-> "secret", site |-> "",       file |-> File(NameWithHint, <<2, 4>>)],
   [token |-> "secret", site |-> "main",   file |-> File(NameWithHint, <<2, 5>>)],
   [token |-> "secret", site |-> "cancer", file |-> File(NameWithHint, <<2, 4>>)],
   [token |-> "secret", site |-> "",       file |-> File(NameNoHint, <<1>>)],
   [token |-> "secret", site |-> "",       file |-> File(NameNoHint, <<6>>)],
   [token |-> "guess",  site |-> "",       file |-> File(NameWithHint, <<2, 4>>)],
   [token |-> "secret", site |-> "main",   file |-> NoFile]}

NoDoc == [site |-> "", source |-> [filename |-> <<>>], weekStart |-> Null, days |-> <<>>]

\* requireAdmin: the status it answers with, or 0 when it calls next().
requireAdmin(token) ==
  IF ADMIN_TOKEN = "" THEN 500
  ELSE IF token # ADMIN_TOKEN THEN 401
  ELSE 0

\* The handler without its test of payload.weekStart.
afterParseNoCheck(payload) == [pc |-> "query", status |-> 0]

\* Line 119, after parseMealExcel has returned: answer 400, or go on to the INSERT.
afterParse(payload) ==
  IF payload.weekStart = Null THEN [pc |-> "done", status |-> 400]
  ELSE [pc |-> "query", status |-> 0]

\* The value of a text given for a DATE column: <<y, m, d>>, or <<0, 0, 0>>
\* when the database rejects it (no calendar date, or null in a NOT NULL column).
dateIn(text) ==
  LET y == NumberOf(SubSeq(text, 1, 4))
      m == NumberOf(SubSeq(text, 6, 7))
      d == NumberOf(SubSeq(text, 9, 10))
  IN IF /\ Len(text) = 10
        /\ text[5] = "-" /\ text[8] = "-"
        /\ \A k \in {1, 2, 3, 4, 6, 7, 9, 10} : IsDigit(text[k])
        /\ m >= 1 /\ m <= 12 /\ d >= 1 /\ d <= DaysInMonth(y, m)
     THEN <<y, m, d>>
     ELSE <<0, 0, 0>>

\* INSERT without the DO UPDATE: a conflicting row is left as it is.
upsertDoNothing(table, st, week, payload, now) ==
  IF \E row \in table : row.site = st /\ row.week_start = week THEN table
  ELSE table \cup {[site |-> st, week_start |-> week, payload |-> payload, updated_at |-> now]}

\* INSERT ... ON CONFLICT(site, week_start) DO UPDATE SET payload, updated_at
upsert(table, st, week, payload, now) ==
  {row \in table : ~(row.site = st /\ row.week_start = week)}
    \cup {[site |-> st, week_start |-> week, payload |-> payload, updated_at |-> now]}

InitUpload ==
  /\ pc = "serving"
  /\ ServerIdle
  /\ ParserIdle
  /\ DedupeIdle

\* A POST /api/upload arrives.  It is answered by requireAdmin or for its
\* missing file, or multer stores the file and the handler calls
\* parseMealExcel, whose steps are BuildColumns, ParseRow and Finish; no
\* other JavaScript runs until the call has returned (pc = "serving").
UploadRequest ==
  /\ pc = "serving"
  /\ Len(reqs) < MaxReqs
  /\ \E u \in Uploads :
       LET st   == IF u.site # "" THEN u.site ELSE "main"
           gate == requireAdmin(u.token)
           req  == [input |-> u, site |-> st, payload |-> NoDoc, pc |-> "done", status |-> 0]
       IN IF gate # 0
          THEN /\ reqs' = Append(reqs, [req EXCEPT !.status = gate])
               /\ UNCHANGED <<pc, parserVars, tmpFiles>>
          ELSE IF ~u.file.present
          THEN /\ reqs' = Append(reqs, [req EXCEPT !.status = 400])
               /\ UNCHANGED <<pc, parserVars, tmpFiles>>
          ELSE /\ reqs' = Append(reqs, [req EXCEPT !.pc = "parsing"])
               /\ tmpFiles' = tmpFiles \cup {Len(reqs) + 1}
               /\ pc' = "start"
               /\ site' = st
               /\ filename' = u.file.originalname
               /\ rows' = u.file.grid
               /\ UNCHANGED <<baseYearGuess, detected, mealCols, currentDate, allDates,
                              days, i, weekStart, rawDays>>
  /\ UNCHANGED <<week_menus, clock, writes, dedupeVars>>

\* parseMealExcel has returned to the handler of request r (lines 119-127
\* and, when it answers, the `finally`): the locals of the call are gone.
UploadParsed(r) ==
  /\ pc = "done"
  /\ reqs[r].pc = "parsing"
  /\ LET payload == [site |-> site, source |-> [filename |-> filename],
                     weekStart |-> weekStart, days |-> days]
         h == afterParse(payload)
     IN /\ reqs' = [reqs EXCEPT ![r].payload = payload, ![r].pc = h.pc, ![r].status = h.status]
        /\ tmpFiles' = IF h.pc = "done" THEN tmpFiles \ {r} ELSE tmpFiles
  /\ pc' = "serving"
  /\ site' = "main"
  /\ filename' = <<>>
  /\ rows' = <<>>
  /\ baseYearGuess' = 0
  /\ detected' = NoDetection
  /\ mealCols' = NoColumns
  /\ currentDate' = Null
  /\ allDates' = <<>>
  /\ days' = <<>>
  /\ i' = 0
  /\ weekStart' = Null
  /\ rawDays' = <<>>
  /\ UNCHANGED <<week_menus, clock, writes, dedupeVars>>

\* The database executes the INSERT of request r, or rejects it for its
\* week_start.
DbExecute(r) ==
  /\ reqs[r].pc = "query"
  /\ LET week == dateIn(reqs[r].payload.weekStart)
     IN IF week = <<0, 0, 0>>
        THEN /\ reqs' = [reqs EXCEPT ![r].pc = "rejected"]
             /\ UNCHANGED <<week_menus, clock, writes>>
        ELSE /\ week_menus' = upsert(week_menus, reqs[r].site, week, reqs[r].payload, clock + 1)
             /\ clock' = clock + 1
             /\ writes' = Append(writes, [req |-> r, site |-> reqs[r].site, week_start |-> week,
                                          payload |-> reqs[r].payload])
             /\ reqs' = [reqs EXCEPT ![r].pc = "resolved"]
  /\ UNCHANGED <<tmpFiles, pc, parserVars, dedupeVars>>

\* The query of request r fails before the database executes it.
DbFail(r) ==
  /\ reqs[r].pc = "query"
  /\ reqs' = [reqs EXCEPT ![r].pc = "rejected"]
  /\ UNCHANGED <<week_menus, tmpFiles, clock, writes, pc, parserVars, dedupeVars>>

\* The handler of request r resumes after its await (lines 129-135): it
\* answers, and its `finally` removes the temp file.
UploadResume(r) ==
  /\ pc = "serving"
  /\ \/ /\ reqs[r].pc = "resolved"
        /\ reqs' = [reqs EXCEPT ![r].pc = "done", ![r].status = 200]
     \/ /\ reqs[r].pc = "rejected"
        /\ reqs' = [reqs EXCEPT ![r].pc = "done", ![r].status = 500]
  /\ tmpFiles' = tmpFiles \ {r}
  /\ UNCHANGED <<week_menus, clock, writes, pc, parserVars, dedupeVars>>

NextUpload ==
  \/ UploadRequest
  \/ BuildColumns
  \/ ParseRow
  \/ Finish
  \/ \E r \in DOMAIN reqs : UploadParsed(r)
  \/ \E r \in DOMAIN reqs : DbExecute(r)
  \/ \E r \in DOMAIN reqs : DbFail(r)
  \/ \E r \in DOMAIN reqs : UploadResume(r)

SpecUpload == InitUpload /\ [][NextUpload]_vars

\* ======================================================= claims (Spec)
\* A string that is a calendar date in the form YYYY-MM-DD.
IsCalendarDate(x) ==
  /\ Len(x) = 10
  /\ x[5] = "-" /\ x[8] = "-"
  /\ \A k \in {1, 2, 3, 4, 6, 7, 9, 10} : IsDigit(x[k])
  /\ NumberOf(SubSeq(x, 6, 7)) \in 1..12
  /\ NumberOf(SubSeq(x, 9, 10)) \in
       1..DaysInMonth(NumberOf(SubSeq(x, 1, 4)), NumberOf(SubSeq(x, 6, 7)))

DayNumOf(x) ==
  DaysFromCivil(NumberOf(SubSeq(x, 1, 4)), NumberOf(SubSeq(x, 6, 7)),
                NumberOf(SubSeq(x, 9, 10)))

\* The Monday on or before the calendar date x.
MondayOfWeek(x) ==
  LET m == CHOOSE n \in (DayNumOf(x) - 6)..DayNumOf(x) : DayOfWeek(n) = 1
      c == CivilFromDays(m)
  IN toISODate(c[1], c[2], c[3])

MinDateKey ==
  CHOOSE a \in DOMAIN days : \A b \in DOMAIN days : a = b \/ StrLess(a, b)

\* The date of row r's column 0 (Null: none), the date a row is anchored to
\* (that of the last date row at or before it), and the continuation rows.
RowDate(r) == normalizeDateCell(CellAt(rows[r], 0), baseYearGuess)

RECURSIVE RowDatesUpTo(_)
RowDatesUpTo(n) ==
  IF n = 0 THEN <<>> ELSE Append(RowDatesUpTo(n - 1), RowDate(n))

RowDates == RowDatesUpTo(Len(rows))

AnchorIn(dates, r) ==
  LET before == {q \in 1..r : dates[q] # Null}
  IN IF before = {} THEN Null
     ELSE dates[CHOOSE q \in before : \A q2 \in before : q2 <= q]

AnchorOf(r) == AnchorIn(RowDates, r)

IsContinuationIn(dates, r) == dates[r] = Null /\ AnchorIn(dates, r) # Null

IsContinuation(r) == IsContinuationIn(RowDates, r)

\* C1: a non-null weekStart is a Monday, is <= every date key of days, and
\* is at most 6 days before the least date key.
C1_MondayInvariant ==
  (pc = "done" /\ weekStart # Null) =>
    /\ IsCalendarDate(weekStart)
    /\ DayOfWeek(DayNumOf(weekStart)) = 1
    /\ \A d \in DOMAIN days : ~StrLess(d, weekStart)
    /\ IsCalendarDate(MinDateKey)
    /\ DayNumOf(MinDateKey) - DayNumOf(weekStart) \in 0..6

\* The end-to-end scenario of C2: three rows, the first no date row, the
\* second and the third date rows of two consecutive days with the same
\* lunch text "k\nb" in a lunch column.
C2_Scenario ==
  /\ pc = "done"
  /\ Len(rows) = 3
  /\ RowDate(1) = Null
  /\ IsCalendarDate(RowDate(2))
  /\ IsCalendarDate(RowDate(3))
  /\ DayNumOf(RowDate(3)) = DayNumOf(RowDate(2)) + 1
  /\ \E k \in 1..Len(mealCols.lunch) :
       /\ CellAt(rows[2], mealCols.lunch[k]) = StrCell(TextKB)
       /\ CellAt(rows[3], mealCols.lunch[k]) = StrCell(TextKB)

\* C2 as stated: in the scenario the result has exactly the two day keys,
\* each with lunch = [k, b], and weekStart is the Monday of the first date's week.
C2_EndToEnd_AsStated ==
  C2_Scenario =>
    /\ DOMAIN days = {RowDate(2), RowDate(3)}
    /\ days[RowDate(2)].lunch = <<<<"k">>, <<"b">>>>
    /\ days[RowDate(3)].lunch = <<<<"k">>, <<"b">>>>
    /\ weekStart = MondayOfWeek(RowDate(2))

\* C2 amended: in the scenario the result has exactly the two day keys and
\* weekStart is the Monday of the first date's week, but the lunch text of
\* the date rows is not accumulated: each day's lunch is empty.
C2_EndToEnd_Amended ==
  C2_Scenario =>
    /\ DOMAIN days = {RowDate(2), RowDate(3)}
    /\ days[RowDate(2)].lunch = <<>>
    /\ days[RowDate(3)].lunch = <<>>
    /\ weekStart = MondayOfWeek(RowDate(2))

C2_Witness == C2_Scenario /\ weekStart = toISODate(2026, 1, 12)

\* No empty string, and no two strings equal after trimming.
NoDupNoEmpty(xs) ==
  /\ \A a \in 1..Len(xs) : xs[a] # <<>>
  /\ \A a, b \in 1..Len(xs) : a # b => Trim(xs[a]) # Trim(xs[b])

\* Every line of the text is blank or a header label.
OnlyLabelLines(text) ==
  LET ls == SplitNewlines(ReplaceAll(ReplaceAll(text, "\r", <<>>), "nbsp", <<" ">>))
  IN \A k \in 1..Len(ls) : Trim(ls[k]) = <<>> \/ IsHeaderLabel(ls[k])

\* The cells of the extras columns of the rows continuing day d.
ExtrasCells(d) ==
  UNION {{CellAt(rows[r], mealCols.extras[ek][k]) : k \in 1..Len(mealCols.extras[ek])} :
           r \in {q \in 1..Len(rows) : IsContinuation(q) /\ AnchorOf(q) = d},
           ek \in DOMAIN mealCols.extras} \ {NullCell}

ExtrasOnlyLabels(d) == \A cell \in ExtrasCells(d) : OnlyLabelLines(safeText(cell))

\* C3: in the returned document every bucket of every day has no duplicate
\* and no empty string; extras is absent or a non-empty map of non-empty
\* sequences; a day whose extras cells hold only header labels has no extras.
C3_DayMenuInvariant ==
  pc = "done" =>
    \A d \in DOMAIN days :
      /\ NoDupNoEmpty(days[d].breakfast)
      /\ NoDupNoEmpty(days[d].lunch)
      /\ NoDupNoEmpty(days[d].dinner)
      /\ "extras" \in DOMAIN days[d] =>
           /\ DOMAIN days[d].extras # {}
           /\ \A ek \in DOMAIN days[d].extras :
                Len(days[d].extras[ek]) > 0 /\ NoDupNoEmpty(days[d].extras[ek])
      /\ ExtrasOnlyLabels(d) => "extras" \notin DOMAIN days[d]

C3_Witness ==
  /\ pc = "done"
  /\ \E d \in DOMAIN days :
       /\ ExtrasCells(d) # {}
       /\ ExtrasOnlyLabels(d)
       /\ "extras" \notin DOMAIN days[d]
       /\ Len(rawDays[d].lunch) > Len(days[d].lunch)
       /\ Len(days[d].lunch) >= 2

FirstIndex(xs, x) == CHOOSE a \in 1..Len(xs) : xs[a] = x /\ \A b \in 1..(a - 1) : xs[b] # x

\* out lists each distinct item of raw once, in the order of first occurrence.
OrderPreserved(raw, out) ==
  /\ {out[a] : a \in 1..Len(out)} = {raw[a] : a \in 1..Len(raw)}
  /\ \A a, b \in 1..Len(out) :
       a < b => out[a] # out[b] /\ FirstIndex(raw, out[a]) < FirstIndex(raw, out[b])

\* C6: every bucket of every day lists each distinct item of its raw
\* accumulated sequence exactly once, in the order of first occurrence.
C6_OrderPreservation ==
  pc = "done" =>
    \A d \in DOMAIN days :
      /\ \A key \in {"breakfast", "lunch", "dinner"} :
           OrderPreserved(rawDays[d][key], days[d][key])
      /\ \A ek \in DOMAIN rawDays[d].extras :
           /\ "extras" \in DOMAIN days[d]
           /\ ek \in DOMAIN days[d].extras
           /\ OrderPreserved(rawDays[d].extras[ek], days[d].extras[ek])

\* A bucket whose raw sequence repeats an item after a later, new one.
C6_Witness ==
  /\ pc = "done"
  /\ \E d \in DOMAIN days :
       LET raw == rawDays[d].lunch
       IN /\ Len(days[d].lunch) >= 3
          /\ \E a, b, c \in 1..Len(raw) : a < b /\ b < c /\ raw[a] = raw[c] /\ raw[a] # raw[b]

FallbackOfMain ==
  [breakfast |-> <<1>>, lunch |-> <<3, 4>>, dinner |-> <<5, 6>>,
   extras |-> [night |-> <<7, 8>>]]

FallbackOfCancer ==
  [breakfast |-> <<1, 2>>, lunch |-> <<3, 4>>, dinner |-> <<5, 6>>,
   extras |-> [salad |-> <<7>>, night |-> <<8>>]]

\* C8: each of breakfast, lunch, dinner uses the detector's columns when it
\* found any and the site's fallback otherwise; the extras are the
\* fallback's whatever was detected; a site other than "main" has the
\* cancer fallback.
C8_ColumnResolution ==
  pc # "start" =>
    LET fb == IF site = "main" THEN FallbackOfMain ELSE FallbackOfCancer
    IN /\ \A key \in {"breakfast", "lunch", "dinner"} :
            mealCols[key] = IF detected[key] # <<>> THEN detected[key] ELSE fb[key]
       /\ mealCols.extras = fb.extras

C8_Witness ==
  /\ pc = "rows"
  /\ site = "annex"
  /\ detected.lunch = <<3>>
  /\ detected.dinner = <<>>
  /\ detected.night # <<>>
  /\ detected.salad # <<>>
  /\ mealCols.dinner = <<5, 6>>

\* C9: a column is in a meal category's detected set only on account of a
\* cell of the scan window that holds the category's keyword and not the
\* corner keyword.
C9_CornerExclusion ==
  pc # "start" =>
    \A key \in {"breakfast", "lunch", "dinner", "night", "salad"} :
      \A k \in 1..Len(detected[key]) :
        \E r \in 1..Len(rows) :
          /\ r <= ScanLimit
          /\ \E kw \in Keywords[key] : Includes(safeText(CellAt(rows[r], detected[key][k])), kw)
          /\ ~Includes(safeText(CellAt(rows[r], detected[key][k])), "koneo")

\* What the continuation rows among the first n rows give day d from the
\* columns cols; dates are the rows' dates.
RECURSIVE Contribution(_, _, _, _)
Contribution(dates, d, cols, n) ==
  IF n = 0 THEN <<>>
  ELSE Contribution(dates, d, cols, n - 1)
         \o (IF IsContinuationIn(dates, n) /\ AnchorIn(dates, n) = d
             THEN ItemsOfCols(rows[n], cols)
             ELSE <<>>)

C10_Provenance ==
  pc = "rows" =>
    LET dates == RowDates
    IN /\ DOMAIN days = {dates[r] : r \in {q \in 1..i : dates[q] # Null}}
       /\ \A d \in DOMAIN days :
            /\ \A key \in {"breakfast", "lunch", "dinner"} :
                 days[d][key] = Contribution(dates, d, mealCols[key], i)
            /\ \A ek \in DOMAIN mealCols.extras :
                 LET given == Contribution(dates, d, mealCols.extras[ek], i)
                 IN IF given = <<>>
                    THEN ek \notin DOMAIN days[d].extras
                    ELSE /\ ek \in DOMAIN days[d].extras
                         /\ days[d].extras[ek] = given

C10_RowFrame ==
  (pc = "rows" /\ i' = i + 1) =>
    IF RowDate(i + 1) # Null
    THEN /\ \A d \in DOMAIN days : days'[d] = days[d]
         /\ \A d \in (DOMAIN days') \ (DOMAIN days) : days'[d] = EmptyDay
    ELSE IF currentDate = Null THEN days' = days
    ELSE /\ DOMAIN days' = DOMAIN days
         /\ \A d \in (DOMAIN days) \ {currentDate} : days'[d] = days[d]

\* C10: every item of a bucket of day d comes from a continuation row whose
\* latest date row before it has date d; rows before the first date row and
\* date rows give nothing; a continuation row changes the current day only.
C10_RowClassifier == [](C10_Provenance) /\ [][C10_RowFrame]_vars

\* Two days, the second continued by a row with items, the first left empty.
C10_Witness ==
  /\ pc = "rows"
  /\ i = 3
  /\ Cardinality(DOMAIN days) = 2
  /\ IsContinuation(3)
  /\ days[currentDate].lunch # <<>>
  /\ \E d \in (DOMAIN days) \ {currentDate} : days[d] = EmptyDay

\* ================================================= claims (SpecUpload)
\* No row of the uploaded grid has a date in column 0.
NoDateUploads ==
  {u \in Uploads :
     \A k \in 1..Len(u.file.grid) :
       normalizeDateCell(CellAt(u.file.grid[k], 0),
                         parseBaseDateFromFilename(u.file.originalname).y) = Null}

NoDateRow(u) == u \in NoDateUploads

\* The requests whose handler has called parseMealExcel and has it back.
Parsed == {r \in DOMAIN reqs : /\ requireAdmin(reqs[r].input.token) = 0
                               /\ reqs[r].input.file.present
                               /\ reqs[r].pc # "parsing"}

C4_NoDateInv ==
  \A r \in Parsed :
    NoDateRow(reqs[r].input) =>
      /\ reqs[r].payload.weekStart = Null
      /\ reqs[r].payload.days = <<>>
      /\ reqs[r].pc = "done"
      /\ reqs[r].status = 400
      /\ \A k \in 1..Len(writes) : writes[k].req # r

C4_NoDateFrame ==
  \A r \in DOMAIN reqs :
    (reqs[r].pc = "parsing" /\ reqs'[r].pc # "parsing" /\ NoDateRow(reqs[r].input)) =>
      week_menus' = week_menus

\* C4: a grid with no date in column 0 parses to weekStart = null and no
\* days, the upload is answered with 400, and week_menus stays as it was.
C4_NoDateFound == [](C4_NoDateInv) /\ [][C4_NoDateFrame]_vars

\* An upload without dates answered while the table holds a week.
C4_Witness ==
  \E r \in Parsed :
    /\ NoDateRow(reqs[r].input)
    /\ reqs[r].input.file.grid # <<>>
    /\ reqs[r].status = 400
    /\ week_menus # {}
    /\ writes[Len(writes)].req < r

KeyOf(x) == <<x.site, x.week_start>>

\* The writes executed for the key, in order.
WritesFor(key) == SelectSeq(writes, LAMBDA w : KeyOf(w) = key)

C5_StoreInv ==
  /\ \A a, b \in week_menus : KeyOf(a) = KeyOf(b) => a = b
  /\ {KeyOf(row) : row \in week_menus} = {KeyOf(writes[k]) : k \in 1..Len(writes)}
  /\ \A row \in week_menus :
       LET ws   == WritesFor(KeyOf(row))
           last == ws[Len(ws)]
       IN /\ row.payload = last.payload
          /\ row.payload = reqs[last.req].payload
          /\ row.site = reqs[last.req].site
          /\ reqs[last.req].pc \in {"resolved", "done"}
          /\ reqs[last.req].pc = "done" => reqs[last.req].status = 200

C5_StoreFrame ==
  IF writes' = writes THEN week_menus' = week_menus
  ELSE /\ Len(writes') = Len(writes) + 1
       /\ \A row \in week_menus :
            KeyOf(row) # KeyOf(writes'[Len(writes')]) => row \in week_menus'

\* C5: week_menus holds at most one row per (site, week_start); the row of a
\* key holds the payload of the last upload written for it; a write for one
\* key leaves the rows of the other keys as they were.
C5_LastWriteWins == [](C5_StoreInv) /\ [][C5_StoreFrame]_vars

\* Two uploads written for one key, the later over the earlier, while the
\* row of another key stays.
C5_Witness ==
  /\ Len(writes) = 3
  /\ KeyOf(writes[1]) = KeyOf(writes[3])
  /\ KeyOf(writes[2]) # KeyOf(writes[1])
  /\ writes[1].payload # writes[3].payload
  /\ writes[3].req < writes[1].req
  /\ Cardinality(week_menus) = 2

\* ================================================= claims (SpecDedupe)
\* C7: the dedupe pass applied twice gives what it gives applied once.
C7_DedupeIdempotent == pc = "dedupe2" => twice = once

C7_Witness ==
  /\ pc = "dedupe2"
  /\ Len(arr) = 3
  /\ Len(once) = 2
  /\ \E k \in 1..Len(arr) : Trim(arr[k]) # arr[k] /\ Trim(arr[k]) # <<>>

====
